---------------------------- MODULE Spec2Model ----------------------------
(***************************************************************************)
(* Model of src/opp.py: the Onishi-port tide dashboard.  One script run    *)
(* (a Streamlit rerun) is a sequence of steps over the session state, the  *)
(* widget values and the run's local variables.                            *)
(*                                                                         *)
(* Representation.                                                         *)
(*   - A calendar date of 2026 and its "%Y-%m-%d" string are the day of    *)
(*     the year (2026-01-15 = 15, 2026-02-14 = 45).                        *)
(*   - A datetime is the minute of the year: day * 1440 + hour * 60 + min. *)
(*   - A text token is [num, v]: num says whether int() accepts it, v is   *)
(*     the integer it yields.  A time string "HH:MM" is the sequence of    *)
(*     its ":"-separated tokens.                                           *)
(*   - A level of the dense series is fixed point, in 1/LevelScale cm, the *)
(*     cosine is Bhaskara's rational approximation: both are exact at the  *)
(*     anchors and monotone in between, as the floating-point code is.     *)
(***************************************************************************)
EXTENDS Integers, Sequences, FiniteSets, TLC

VARIABLES
    session_view_date,  \* st.session_state['view_date']; Unset before the first run
    manual_input,       \* the text area: a sequence of lines, each a sequence of tokens
    target_cm,          \* number input
    start_h, end_h,     \* slider
    current_pressure,   \* get_current_pressure(), in tenths of hPa
    jma_response,       \* the lines the JMA server answers with (<<>>: fetch failed)
    pressed,            \* the button whose press started this run
    pc,                 \* position of the script run
    view_date,          \* local view_date (line 279)
    model,              \* the OnishiTideModel of line 318
    points,             \* points_t/points_l of get_dataframe
    df,                 \* the dense series
    safe_windows,
    peaks_to_plot,
    err                 \* the uncaught exception that ended the run, or "none"

vars == <<session_view_date, manual_input, target_cm, start_h, end_h,
          current_pressure, jma_response, pressed, pc, view_date, model,
          points, df, safe_windows, peaks_to_plot, err>>

-----------------------------------------------------------------------------
(* Program constants *)

STANDARD_PRESSURE == 1013
BaseDate == 15
Days == 5
MinWindowSeconds == 600
HighThreshold == 150
DefaultTarget == 120
DefaultStartH == 7
DefaultEndH == 23
NavStep == 5
MinutesPerDay == 1440
LevelScale == 1000

(* Bounds of the model *)

MaxBack == 1
MaxAhead == 1

Unset == 0
Today == 45

-----------------------------------------------------------------------------
(* Tokens *)

Num(v) == [num |-> TRUE, v |-> v]
Str == [num |-> FALSE, v |-> 0]
T(h, m) == <<Num(h), Num(m)>>

ManualRows ==
   <<
      <<<<T(1, 0), 54, "L">>, <<T(8, 19), 287, "H">>, <<T(14, 10), 163, "L">>, <<T(19, 19), 251, "H">>>>,
      <<<<T(2, 0), 37, "L">>, <<T(9, 0), 309, "H">>, <<T(15, 0), 149, "L">>, <<T(20, 19), 260, "H">>>>,
      <<<<T(2, 59), 20, "L">>, <<T(9, 50), 327, "H">>, <<T(15, 50), 133, "L">>, <<T(21, 0), 272, "H">>>>,
      <<<<T(3, 39), 7, "L">>, <<T(10, 29), 340, "H">>, <<T(16, 29), 117, "L">>, <<T(21, 59), 284, "H">>>>,
      <<<<T(4, 19), 0, "L">>, <<T(11, 0), 348, "H">>, <<T(17, 0), 102, "L">>, <<T(22, 39), 293, "H">>>>,
      <<<<T(4, 59), 0, "L">>, <<T(11, 39), 350, "H">>, <<T(17, 39), 90, "L">>, <<T(23, 19), 299, "H">>>>,
      <<<<T(5, 30), 8, "L">>, <<T(12, 0), 346, "H">>, <<T(18, 10), 80, "L">>>>,
      <<<<T(0, 0), 299, "H">>, <<T(6, 9), 23, "L">>, <<T(12, 39), 337, "H">>, <<T(18, 49), 73, "L">>>>,
      <<<<T(0, 39), 295, "H">>, <<T(6, 49), 44, "L">>, <<T(13, 9), 325, "H">>, <<T(19, 20), 70, "L">>>>,
      <<<<T(1, 20), 285, "H">>, <<T(7, 20), 71, "L">>, <<T(13, 40), 309, "H">>, <<T(20, 0), 70, "L">>>>,
      <<<<T(2, 19), 271, "H">>, <<T(8, 0), 102, "L">>, <<T(14, 19), 290, "H">>, <<T(20, 59), 73, "L">>>>,
      <<<<T(3, 19), 256, "H">>, <<T(8, 59), 134, "L">>, <<T(14, 59), 271, "H">>, <<T(21, 49), 76, "L">>>>,
      <<<<T(4, 39), 246, "H">>, <<T(10, 0), 163, "L">>, <<T(15, 59), 252, "H">>, <<T(23, 0), 76, "L">>>>,
      <<<<T(6, 19), 251, "H">>, <<T(11, 59), 178, "L">>, <<T(17, 0), 239, "H">>>>,
      <<<<T(0, 19), 68, "L">>, <<T(7, 40), 269, "H">>, <<T(13, 30), 173, "L">>, <<T(18, 30), 237, "H">>>>,
      <<<<T(1, 29), 52, "L">>, <<T(8, 40), 293, "H">>, <<T(14, 39), 156, "L">>, <<T(19, 40), 246, "H">>>>,
      <<<<T(2, 20), 34, "L">>, <<T(9, 20), 314, "H">>, <<T(15, 20), 136, "L">>, <<T(20, 40), 262, "H">>>>,
      <<<<T(3, 10), 17, "L">>, <<T(10, 0), 331, "H">>, <<T(16, 0), 115, "L">>, <<T(21, 29), 279, "H">>>>,
      <<<<T(3, 59), 6, "L">>, <<T(10, 39), 342, "H">>, <<T(16, 39), 96, "L">>, <<T(22, 10), 295, "H">>>>,
      <<<<T(4, 30), 1, "L">>, <<T(11, 0), 348, "H">>, <<T(17, 9), 79, "L">>, <<T(22, 59), 306, "H">>>>,
      <<<<T(5, 0), 4, "L">>, <<T(11, 39), 347, "H">>, <<T(17, 40), 66, "L">>, <<T(23, 30), 311, "H">>>>,
      <<<<T(5, 40), 15, "L">>, <<T(12, 0), 341, "H">>, <<T(18, 10), 57, "L">>>>,
      <<<<T(0, 9), 310, "H">>, <<T(6, 19), 34, "L">>, <<T(12, 39), 331, "H">>, <<T(18, 49), 52, "L">>>>,
      <<<<T(0, 49), 302, "H">>, <<T(6, 59), 58, "L">>, <<T(13, 0), 316, "H">>, <<T(19, 20), 53, "L">>>>,
      <<<<T(1, 30), 288, "H">>, <<T(7, 29), 88, "L">>, <<T(13, 39), 298, "H">>, <<T(20, 0), 58, "L">>>>,
      <<<<T(2, 20), 270, "H">>, <<T(8, 10), 121, "L">>, <<T(14, 10), 278, "H">>, <<T(20, 59), 67, "L">>>>,
      <<<<T(3, 30), 252, "H">>, <<T(9, 0), 153, "L">>, <<T(14, 59), 256, "H">>, <<T(21, 59), 76, "L">>>>,
      <<<<T(5, 0), 244, "H">>, <<T(10, 39), 178, "L">>, <<T(15, 59), 236, "H">>, <<T(23, 19), 78, "L">>>>,
      <<<<T(6, 59), 254, "H">>, <<T(12, 40), 181, "L">>, <<T(17, 39), 226, "H">>>>,
      <<<<T(0, 40), 69, "L">>, <<T(8, 0), 277, "H">>, <<T(14, 9), 163, "L">>, <<T(19, 0), 233, "H">>>>,
      <<<<T(1, 59), 51, "L">>, <<T(8, 59), 300, "H">>, <<T(14, 59), 140, "L">>, <<T(20, 19), 252, "H">>>>
   >>

MANUAL_TIDE_DATA == [d \in 15..45 |-> ManualRows[d - 14]]

EmptyMap == [d \in {} |-> <<>>]

DaysBeforeMonth == <<0, 31, 59, 90, 120, 151, 181, 212, 243, 273, 304, 334>>

\* f"{year}-{m:02d}-{d:02d}" as a day of the year; Unset for no date of 2026
DateKey(m, d) == IF m \in 1..12 /\ d \in 1..31 THEN DaysBeforeMonth[m] + d ELSE Unset

-----------------------------------------------------------------------------
(* fetch_jma_data_map: the loop over the lines of the response.  A token    *)
(* int() rejects raises inside the try, which ends the loop and returns the *)
(* map built so far.                                                        *)

RECURSIVE JmaLoop(_, _, _)
JmaLoop(lines, i, data_map) ==
    IF i > Len(lines) THEN data_map
    ELSE LET parts == lines[i] IN
         IF Len(parts) < 28 \/ ~parts[1].num \/ parts[1].v < 0
         THEN JmaLoop(lines, i + 1, data_map)
         ELSE IF \E k \in 3..28 : ~parts[k].num
              THEN data_map
              ELSE LET date_str == DateKey(parts[3].v, parts[4].v)
                       levels == [h \in 1..24 |-> parts[4 + h].v]
                   IN JmaLoop(lines, i + 1,
                              [d \in DOMAIN data_map \cup {date_str} |->
                                  IF d = date_str THEN levels ELSE data_map[d]])

fetch_jma_data_map(response) == JmaLoop(response, 1, EmptyMap)

\* int(STANDARD_PRESSURE - pressure_hpa): int() truncates toward zero
TruncTenths(x10) == IF x10 >= 0 THEN x10 \div 10 ELSE -((-x10) \div 10)

FloorTenths(x10) == x10 \div 10

\* the same difference rounded down instead
PressureCorrectionFloor(p10) == FloorTenths(STANDARD_PRESSURE * 10 - p10)

PressureCorrection(p10) == TruncTenths(STANDARD_PRESSURE * 10 - p10)

\* parse_user_input: one line; the except swallows a level int() rejects
ParseLine(data, parts) ==
    IF Len(parts) >= 3 /\ parts[3].num
    THEN LET d_str == parts[1]
             lvl == parts[3].v
             ptype == IF lvl > HighThreshold THEN "H" ELSE "L"
             entry == <<parts[2], lvl, ptype>>
         IN [d \in DOMAIN data \cup {d_str} |->
                IF d \in DOMAIN data
                THEN IF d = d_str THEN Append(data[d], entry) ELSE data[d]
                ELSE <<entry>>]
    ELSE data

RECURSIVE ParseLoop(_, _, _)
ParseLoop(lines, i, data) ==
    IF i > Len(lines) THEN data
    ELSE ParseLoop(lines, i + 1, ParseLine(data, lines[i]))

parse_user_input(text) == ParseLoop(text, 1, EmptyMap)

\* OnishiTideModel.__init__
NewModel(pressure_hpa, response, text) ==
    [jma_map |-> fetch_jma_data_map(response),
     pressure_correction |-> PressureCorrection(pressure_hpa),
     user_data |-> parse_user_input(text)]

-----------------------------------------------------------------------------
(* generate_daily_curve *)

\* h, m = map(int, p_time.split(":")); base_date.replace(hour=h, minute=m)
TimeOk(p_time) ==
    /\ Len(p_time) = 2
    /\ p_time[1].num /\ p_time[2].num
    /\ p_time[1].v \in 0..23
    /\ p_time[2].v \in 0..59

TimeOf(day, p_time) == day * MinutesPerDay + p_time[1].v * 60 + p_time[2].v

\* A. the peaks of the day: user input first, the built-in table otherwise
PeaksOf(m, date_str) ==
    IF date_str \in DOMAIN m.user_data THEN m.user_data[date_str]
    ELSE IF date_str \in DOMAIN MANUAL_TIDE_DATA THEN MANUAL_TIDE_DATA[date_str]
    ELSE <<>>

\* [st |-> "ok", pts |-> <<time, level>>...], [st |-> "none"] for None,
\* [st |-> "raise"] for the ValueError of a bad time string
generate_daily_curve(m, date_str) ==
    LET peaks == PeaksOf(m, date_str) IN
    IF peaks # <<>>
    THEN IF \E k \in 1..Len(peaks) : ~TimeOk(peaks[k][1])
         THEN [st |-> "raise", pts |-> <<>>]
         ELSE [st |-> "ok",
               pts |-> [k \in 1..Len(peaks) |->
                          <<TimeOf(date_str, peaks[k][1]),
                            peaks[k][2] + m.pressure_correction>>]]
    ELSE IF date_str \in DOMAIN m.jma_map
    THEN [st |-> "ok",
          pts |-> [h \in 1..24 |->
                     <<date_str * MinutesPerDay + (h - 1) * 60,
                       m.jma_map[date_str][h] + m.pressure_correction>>]]
    ELSE [st |-> "none", pts |-> <<>>]

-----------------------------------------------------------------------------
(* get_dataframe *)

\* the while loop over calc_start .. calc_end (lines 219-233)
RECURSIVE CollectFrom(_, _, _, _)
CollectFrom(m, curr, calc_end, acc) ==
    IF curr > calc_end THEN [st |-> "ok", pts |-> acc]
    ELSE LET res == generate_daily_curve(m, curr) IN
         IF res.st = "raise" THEN [st |-> "raise", pts |-> <<>>]
         ELSE CollectFrom(m, curr + 1, calc_end, acc \o res.pts)

CollectPoints(m, start_date, days) ==
    CollectFrom(m, start_date - 1, start_date + days + 1, <<>>)

\* mu2 = (1 - cos(ratio * pi)) / 2, in 1/LevelScale, with
\* cos(x) ~ (pi^2 - 4x^2) / (pi^2 + x^2) on [-pi/2, pi/2]
Mu2(m, diff_min) ==
    LET R == LevelScale
        r == (m * R) \div diff_min
        k == R - r
    IN IF 2 * r <= R
       THEN (5 * r * r * LevelScale) \div (2 * (R * R + r * r))
       ELSE ((2 * R * R - 3 * k * k) * LevelScale) \div (2 * (R * R + k * k))

\* val = l1 * (1 - mu2) + l2 * mu2
CosInterp(l1, l2, m, diff_min) ==
    l1 * LevelScale + (l2 - l1) * Mu2(m, diff_min)

\* the segment without its first sample: range(1, diff_min)
SegmentNoFirst(pts, i) ==
    LET t1 == pts[i][1]
        l1 == pts[i][2]
        l2 == pts[i + 1][2]
        diff_min == pts[i + 1][1] - t1
    IN IF diff_min <= 1 THEN <<>>
       ELSE [k \in 1..(diff_min - 1) |-> <<t1 + k, CosInterp(l1, l2, k, diff_min)>>]

\* for m in range(diff_min): the samples of one pair of anchors
Segment(pts, i) ==
    LET t1 == pts[i][1]
        l1 == pts[i][2]
        l2 == pts[i + 1][2]
        diff_min == pts[i + 1][1] - t1
    IN IF diff_min <= 0 THEN <<>>
       ELSE [k \in 1..diff_min |-> <<t1 + (k - 1), CosInterp(l1, l2, k - 1, diff_min)>>]

\* for i in range(len(points_t) - 1)
RECURSIVE FineFrom(_, _)
FineFrom(pts, i) ==
    IF i > Len(pts) - 1 THEN <<>>
    ELSE Segment(pts, i) \o FineFrom(pts, i + 1)

\* mask = (df['time'] >= start_dt) & (df['time'] < end_dt)
InMask(t, start_date, days) ==
    /\ t >= start_date * MinutesPerDay
    /\ t < (start_date + days) * MinutesPerDay

get_dataframe(pts, start_date, days) ==
    IF pts = <<>> THEN <<>>
    ELSE SelectSeq(FineFrom(pts, 1), LAMBDA row : InMask(row[1], start_date, days))

-----------------------------------------------------------------------------
(* Work windows (lines 350-371) *)

HourOf(t) == (t % MinutesPerDay) \div 60

\* df['is_safe']
IsSafe(row, tgt, sh, eh) ==
    /\ row[2] <= tgt * LevelScale
    /\ HourOf(row[1]) >= sh
    /\ HourOf(row[1]) < eh

\* index of the first minimum of the levels of d[lo..hi] (idxmin)
RECURSIVE IdxMin(_, _, _)
IdxMin(d, lo, hi) ==
    IF lo = hi THEN lo
    ELSE LET mid == (lo + hi) \div 2
             a == IdxMin(d, lo, mid)
             b == IdxMin(d, mid + 1, hi)
         IN IF d[b][2] < d[a][2] THEN b ELSE a

SetMin(S) == CHOOSE x \in S : \A y \in S : x <= y

\* d.seconds of a timedelta of `minutes` minutes: the days are not in it
TimedeltaSeconds(minutes) == (minutes % MinutesPerDay) * 60

\* one group of the groupby: rows lo..hi
WindowOf(d, lo, hi) ==
    LET s == d[lo][1]
        e == d[hi][1]
        secs == TimedeltaSeconds(e - s)
        i == IdxMin(d, lo, hi)
    IN [s |-> s, e |-> e,
        h |-> secs \div 3600, m |-> (secs % 3600) \div 60,
        mt |-> d[i][1], ml |-> d[i][2]]

\* the groups of consecutive rows with is_safe, in the order of grp
RECURSIVE WindowsFrom(_, _, _)
WindowsFrom(d, starts, ends) ==
    IF starts = {} THEN <<>>
    ELSE LET lo == SetMin(starts)
             hi == SetMin(ends)
             rest == WindowsFrom(d, starts \ {lo}, ends \ {hi})
         IN IF (d[hi][1] - d[lo][1]) * 60 >= MinWindowSeconds
            THEN <<WindowOf(d, lo, hi)>> \o rest
            ELSE rest

SafeWindows(d, tgt, sh, eh) ==
    LET n == Len(d)
        safe == [i \in 1..n |-> IsSafe(d[i], tgt, sh, eh)]
        starts == {i \in 1..n : safe[i] /\ (i = 1 \/ ~safe[i - 1])}
        ends == {i \in 1..n : safe[i] /\ (i = n \/ ~safe[i + 1])}
    IN WindowsFrom(d, starts, ends)

\* peaks_to_plot (lines 374-391)
RECURSIVE PeaksFrom(_, _, _)
PeaksFrom(m, check_date, left) ==
    IF left = 0 THEN <<>>
    ELSE LET src == PeaksOf(m, check_date) IN
         [k \in 1..Len(src) |->
             [time |-> TimeOf(check_date, src[k][1]),
              level |-> src[k][2] + m.pressure_correction,
              type |-> src[k][3]]]
         \o PeaksFrom(m, check_date + 1, left - 1)

-----------------------------------------------------------------------------
(* Inputs the runs are explored with *)

Line(day, p_time, level) == <<day, p_time, level>>

\* "2026-02-16 06:00 300" ... : one day entered out of time order, one day of
\* three peaks, a level int() rejects, a line of two fields, a bad time string
UserText ==
    << Line(47, T(6, 0), Num(300)),
       Line(47, T(18, 0), Num(100)),
       Line(47, T(12, 0), Num(300)),
       Line(47, T(17, 0), Num(100)),
       Line(48, T(4, 39), Num(246)),
       Line(48, T(10, 0), Num(163)),
       Line(48, T(15, 59), Num(252)),
       Line(49, T(9, 0), Str),
       <<49, T(9, 30)>>,
       Line(56, <<Str>>, Num(100)) >>

Texts == {<<>>, UserText}

HourlySample ==
    <<230, 275, 290, 265, 210, 140, 70, 30, 40, 100, 180, 260,
      315, 330, 300, 240, 170, 110, 80, 85, 130, 190, 250, 290>>

\* a line of the JMA text: station, year, month, day, 24 hourly levels
JmaLine(mo, d, levels) ==
    <<Num(344311), Num(26), Num(mo), Num(d)>> \o [h \in 1..24 |-> Num(levels[h])]

JmaSample == << JmaLine(2, 15, HourlySample),
                SubSeq(JmaLine(2, 16, HourlySample), 1, 20) >>

JmaResponses == {<<>>, JmaSample}

Pressures == {10130, 10136, 10084}

Targets == {DefaultTarget, 400}

HourRanges == {<<DefaultStartH, DefaultEndH>>, <<0, 24>>}

\* now_jst (line 273): a clock outside 2026, or 2026-02-14
Clocks == {[year |-> 2025, date |-> 300], [year |-> 2026, date |-> Today]}

InWindow(d) == d >= Today - NavStep * MaxBack /\ d <= Today + NavStep * MaxAhead

NoModel == [jma_map |-> EmptyMap, pressure_correction |-> 0, user_data |-> EmptyMap]

-----------------------------------------------------------------------------
(* The script *)

Init ==
    /\ session_view_date = Unset
    /\ manual_input = <<>>
    /\ target_cm = DefaultTarget
    /\ start_h = DefaultStartH
    /\ end_h = DefaultEndH
    /\ current_pressure \in Pressures
    /\ jma_response \in JmaResponses
    /\ pressed = "none"
    /\ pc = "top"
    /\ view_date = Unset
    /\ model = NoModel
    /\ points = <<>>
    /\ df = <<>>
    /\ safe_windows = <<>>
    /\ peaks_to_plot = <<>>
    /\ err = "none"

\* a widget event reruns the script from the top with fresh locals
StartRun(button) ==
    /\ pc = "idle"
    /\ pressed' = button
    /\ pc' = "top"
    /\ view_date' = Unset
    /\ model' = NoModel
    /\ points' = <<>>
    /\ df' = <<>>
    /\ safe_windows' = <<>>
    /\ peaks_to_plot' = <<>>
    /\ err' = "none"
    /\ UNCHANGED <<session_view_date, current_pressure, jma_response>>

PressReset ==
    /\ StartRun("reset")
    /\ UNCHANGED <<manual_input, target_cm, start_h, end_h>>

PressPrev ==
    /\ InWindow(session_view_date - NavStep)
    /\ StartRun("prev")
    /\ UNCHANGED <<manual_input, target_cm, start_h, end_h>>

PressNext ==
    /\ InWindow(session_view_date + NavStep)
    /\ StartRun("next")
    /\ UNCHANGED <<manual_input, target_cm, start_h, end_h>>

EditManualInput ==
    /\ \E text \in Texts \ {manual_input} : manual_input' = text
    /\ StartRun("none")
    /\ UNCHANGED <<target_cm, start_h, end_h>>

SetTarget ==
    /\ \E v \in Targets \ {target_cm} : target_cm' = v
    /\ StartRun("none")
    /\ UNCHANGED <<manual_input, start_h, end_h>>

SetHours ==
    /\ \E r \in HourRanges \ {<<start_h, end_h>>} : start_h' = r[1] /\ end_h' = r[2]
    /\ StartRun("none")
    /\ UNCHANGED <<manual_input, target_cm>>

\* lines 272-279
LoadViewDate ==
    /\ pc = "top"
    /\ IF session_view_date = Unset
       THEN \E now_jst \in Clocks :
               session_view_date' = IF now_jst.year # 2026 THEN BaseDate ELSE now_jst.date
       ELSE UNCHANGED session_view_date
    /\ view_date' = session_view_date'
    /\ pc' = "sidebar"
    /\ UNCHANGED <<manual_input, target_cm, start_h, end_h, current_pressure,
                   jma_response, pressed, model, points, df, safe_windows,
                   peaks_to_plot, err>>

\* lines 283-315: the widgets are read, the reset button is handled
Sidebar ==
    /\ pc = "sidebar"
    /\ session_view_date' = IF pressed = "reset" THEN BaseDate ELSE session_view_date
    /\ pc' = "build"
    /\ UNCHANGED <<manual_input, target_cm, start_h, end_h, current_pressure,
                   jma_response, pressed, view_date, model, points, df,
                   safe_windows, peaks_to_plot, err>>

\* lines 318-325: an exception of get_dataframe ends the run
BuildModel ==
    /\ pc = "build"
    /\ model' = NewModel(current_pressure, jma_response, manual_input)
    /\ LET res == CollectPoints(model', view_date, Days) IN
       IF res.st = "raise"
       THEN /\ err' = "ValueError"
            /\ pc' = "idle"
            /\ UNCHANGED <<points, df>>
       ELSE /\ points' = res.pts
            /\ df' = get_dataframe(res.pts, view_date, Days)
            /\ pc' = "nav"
            /\ UNCHANGED err
    /\ UNCHANGED <<session_view_date, manual_input, target_cm, start_h, end_h,
                   current_pressure, jma_response, pressed, view_date,
                   safe_windows, peaks_to_plot>>

\* lines 344-347
Navigation ==
    /\ pc = "nav"
    /\ session_view_date' =
          IF pressed = "prev" THEN session_view_date - NavStep
          ELSE IF pressed = "next" THEN session_view_date + NavStep
          ELSE session_view_date
    /\ pc' = "analyse"
    /\ UNCHANGED <<manual_input, target_cm, start_h, end_h, current_pressure,
                   jma_response, pressed, view_date, model, points, df,
                   safe_windows, peaks_to_plot, err>>

\* lines 350-393
Analyse ==
    /\ pc = "analyse"
    /\ IF df # <<>>
       THEN /\ safe_windows' = SafeWindows(df, target_cm, start_h, end_h)
            /\ peaks_to_plot' = PeaksFrom(model, view_date, Days)
       ELSE UNCHANGED <<safe_windows, peaks_to_plot>>
    /\ pc' = "idle"
    /\ UNCHANGED <<session_view_date, manual_input, target_cm, start_h, end_h,
                   current_pressure, jma_response, pressed, view_date, model,
                   points, df, err>>

Next ==
    \/ PressReset
    \/ PressPrev
    \/ PressNext
    \/ EditManualInput
    \/ SetTarget
    \/ SetHours
    \/ LoadViewDate
    \/ Sidebar
    \/ BuildModel
    \/ Navigation
    \/ Analyse

Spec == Init /\ [][Next]_vars

-----------------------------------------------------------------------------
(* Properties *)

\* the run has built its series without an exception
DfReady == pc \in {"nav", "analyse", "idle"} /\ err = "none"

\* get_dataframe has just returned the series
SeriesReturned == pc = "nav" /\ err = "none"

\* the run has ended with its windows and peaks
RunDone == pc = "idle" /\ err = "none"

DfRows == {df[j] : j \in 1..Len(df)}

DfTimes == {df[j][1] : j \in 1..Len(df)}

RangeMinutes == (view_date * MinutesPerDay)..((view_date + Days) * MinutesPerDay - 1)

\* C1: every collected anchor whose time lies in the requested range,
\* the first and the last included, is a sample of the dense series with
\* exactly the anchor's level.
C1_AnchorsReproduced ==
    DfReady =>
        \A i \in 1..Len(points) :
            InMask(points[i][1], view_date, Days) =>
                <<points[i][1], points[i][2] * LevelScale>> \in DfRows

\* C2: every work window has start < end, lasts at least 10 minutes, and
\* every sample of the dense series whose time lies in [start, end] has
\* level <= target_cm and start_h <= hour < end_h.
C2_WindowsHoldOnlyEligibleSamples ==
    RunDone =>
        \A k \in 1..Len(safe_windows) :
            LET w == safe_windows[k] IN
            /\ w.s < w.e
            /\ w.e - w.s >= 10
            /\ \A j \in 1..Len(df) :
                  (df[j][1] >= w.s /\ df[j][1] <= w.e) =>
                      /\ df[j][2] <= target_cm * LevelScale
                      /\ start_h <= HourOf(df[j][1])
                      /\ HourOf(df[j][1]) < end_h

\* C3: the work windows are in ascending order of start and pairwise
\* disjoint (each ends before the next starts), and each is a maximal run:
\* no eligible sample lies one minute before its start or after its end.
C3_WindowsOrderedDisjointMaximal ==
    RunDone =>
        /\ \A k \in 1..(Len(safe_windows) - 1) :
              safe_windows[k].e < safe_windows[k + 1].s
        /\ \A k \in 1..Len(safe_windows) :
              \A j \in 1..Len(df) :
                  df[j][1] \in {safe_windows[k].s - 1, safe_windows[k].e + 1} =>
                      ~IsSafe(df[j], target_cm, start_h, end_h)

\* C4: the dense series is strictly ascending in time, without duplicate
\* timestamps.
C4_SeriesStrictlyAscending ==
    DfReady => \A j \in 1..(Len(df) - 1) : df[j][1] < df[j + 1][1]

\* the raw source levels of one day, in the order generate_daily_curve reads them
RawLevelsOfDay(m, date_str) ==
    LET peaks == PeaksOf(m, date_str) IN
    IF peaks # <<>> THEN [k \in 1..Len(peaks) |-> peaks[k][2]]
    ELSE IF date_str \in DOMAIN m.jma_map THEN m.jma_map[date_str]
    ELSE <<>>

RECURSIVE RawLevels(_, _, _)
RawLevels(m, curr, calc_end) ==
    IF curr > calc_end THEN <<>>
    ELSE RawLevelsOfDay(m, curr) \o RawLevels(m, curr + 1, calc_end)

CalcDays == (view_date - 1)..(view_date + Days + 1)

\* 1013 - pressure_hpa, in tenths of cm
OffsetTenths == STANDARD_PRESSURE * 10 - current_pressure

\* C5 as stated: every anchor level is the raw source level plus exactly
\* base_offset_cm + (1013 - pressure_hpa), the base offset of this program
\* being 0, for every source and every pressure.
C5_LevelsPlusExactOffset ==
    DfReady =>
        LET raw == RawLevels(model, view_date - 1, view_date + Days + 1) IN
        /\ Len(points) = Len(raw)
        /\ \A i \in 1..Len(points) : (points[i][2] - raw[i]) * 10 = OffsetTenths

\* C5 amended: every anchor level is the raw source level plus the whole
\* number of cm that 1013 - pressure_hpa truncates to (toward zero), for every
\* sample of every source, and the model still holds the sources as parsed.
C5_LevelsPlusTruncatedOffset ==
    DfReady =>
        LET raw == RawLevels(model, view_date - 1, view_date + Days + 1) IN
        /\ Len(points) = Len(raw)
        /\ \A i \in 1..Len(points) :
              LET c == points[i][2] - raw[i] IN
              /\ OffsetTenths >= 0 => (10 * c <= OffsetTenths /\ OffsetTenths < 10 * c + 10)
              /\ OffsetTenths < 0 => (10 * c - 10 < OffsetTenths /\ OffsetTenths <= 10 * c)
        /\ model.user_data = parse_user_input(manual_input)
        /\ model.jma_map = fetch_jma_data_map(jma_response)

\* anchors of all three sources corrected under a pressure above 1013 hPa
\* that is not a whole number
C5_Witness ==
    /\ DfReady
    /\ current_pressure > STANDARD_PRESSURE * 10
    /\ current_pressure % 10 # 0
    /\ \E d \in CalcDays : d \in DOMAIN model.user_data
    /\ \E d \in CalcDays :
          d \in DOMAIN model.jma_map /\ PeaksOf(model, d) = <<>>
    /\ \E d \in CalcDays :
          d \in DOMAIN MANUAL_TIDE_DATA /\ d \notin DOMAIN model.user_data

MalformedInput ==
    \/ \E i \in 1..Len(manual_input) :
          /\ Len(manual_input[i]) >= 3
          /\ ~manual_input[i][3].num \/ ~TimeOk(manual_input[i][2])
    \/ \E i \in 1..Len(jma_response) : Len(jma_response[i]) # 28

\* C7: malformed input fails fast with an InvalidInput error at the input
\* boundary: once the model is constructed from malformed input the run has
\* ended with that error, the input was neither dropped nor passed on to
\* curve generation.
C7_MalformedInputFailsFast ==
    (pc \in {"nav", "analyse", "idle"} /\ MalformedInput) => err = "InvalidInput"

PeakCount(kind) ==
    Cardinality({k \in 1..Len(peaks_to_plot) : peaks_to_plot[k].type = kind})

\* C8: over the peaks built for display the number of HIGH events and the
\* number of LOW events differ by at most 1.
C8_HighLowBalanced ==
    RunDone =>
        /\ PeakCount("H") - PeakCount("L") <= 1
        /\ PeakCount("L") - PeakCount("H") <= 1

\* C9: the recorded duration h:mm of every work window equals end - start,
\* windows of 24 hours or more included.
C9_DurationIsEndMinusStart ==
    RunDone =>
        \A k \in 1..Len(safe_windows) :
            safe_windows[k].h * 60 + safe_windows[k].m
                = safe_windows[k].e - safe_windows[k].s

\* C10: the range a run computes and displays starts at the view_date the
\* session state holds when the run ends.
C10_DisplayedIsSessionDate ==
    pc = "idle" => view_date = session_view_date

=============================================================================
